---- MODULE Spec2Model ----
(***************************************************************************)
(* Model of transfer-markt-scraping.py: the value normalizers              *)
(* (convert_currency_to_number, parse_percentage), the date sequencer      *)
(* (generate_date_range), the table extractor                              *)
(* (scrape_bundesliga_market_values), the CSV sink (save_to_csv) and the   *)
(* orchestrating loop (main).                                              *)
(*                                                                         *)
(* Texts are sequences of one-character strings.  Python floats are IEEE   *)
(* doubles m * 2^e with m < 2^53; Python ints are unbounded.  Both are     *)
(* computed exactly on naturals held as little-endian sequences of limbs   *)
(* in base 2^15 (a product of two limbs fits a 32-bit integer).            *)
(***************************************************************************)
EXTENDS Integers, Sequences, FiniteSets, TLC

VARIABLES
    tpc, text, conv, pct,                 \* a call of the two normalizers
    dpc, date_from, date_to, dates_out,   \* a call of generate_date_range
    epc, page, scraped,                   \* a call of the extractor on one page
    pc, args, dates, i, data, file, log, runs, cleanSink   \* main

textVars == <<tpc, text, conv, pct>>
dateVars == <<dpc, date_from, date_to, dates_out>>
pageVars == <<epc, page, scraped>>
mainVars == <<pc, args, dates, i, data, file, log, runs, cleanSink>>
vars == <<textVars, dateVars, pageVars, mainVars>>

-----------------------------------------------------------------------------
(* Unbounded naturals.                                                     *)

BASE == 32768
LimbBits == 15

Pow2(n) == IF n = 0 THEN 1 ELSE IF n = 1 THEN 2 ELSE IF n = 2 THEN 4
           ELSE IF n = 3 THEN 8 ELSE IF n = 4 THEN 16 ELSE IF n = 5 THEN 32
           ELSE IF n = 6 THEN 64 ELSE IF n = 7 THEN 128 ELSE IF n = 8 THEN 256
           ELSE IF n = 9 THEN 512 ELSE IF n = 10 THEN 1024
           ELSE IF n = 11 THEN 2048 ELSE IF n = 12 THEN 4096
           ELSE IF n = 13 THEN 8192 ELSE IF n = 14 THEN 16384 ELSE 32768

Max(a, b) == IF a >= b THEN a ELSE b
Min(a, b) == IF a <= b THEN a ELSE b

BZero == << >>

BNorm(x) ==
    LET nz == {k \in 1..Len(x) : x[k] # 0}
    IN  IF nz = {} THEN << >>
        ELSE SubSeq(x, 1, CHOOSE k \in nz : \A j \in nz : j <= k)

\* limbs lo..hi of x times c, plus carry: the limbs and the carry out.  The
\* range is halved at each level and the half that produces the carry is
\* evaluated first (the test on it), which keeps the evaluation shallow.
RECURSIVE BMulRange(_, _, _, _, _)
BMulRange(x, lo, hi, c, carry) ==
    IF lo > hi THEN [d |-> << >>, carry |-> carry]
    ELSE IF lo = hi
         THEN LET t == x[lo] * c + carry
              IN  [d |-> <<t % BASE>>, carry |-> t \div BASE]
    ELSE LET mid == (lo + hi) \div 2
             L   == BMulRange(x, lo, mid, c, carry)
             H   == IF L.carry = 0 THEN BMulRange(x, mid + 1, hi, c, 0)
                    ELSE BMulRange(x, mid + 1, hi, c, L.carry)
         IN  [d |-> L.d \o H.d, carry |-> H.carry]

\* x * c + carry, for 0 <= c, carry < BASE
BMulAdd(x, c, carry) ==
    IF x = << >> THEN (IF carry = 0 THEN << >> ELSE <<carry>>)
    ELSE LET r == BMulRange(x, 1, Len(x), c, carry)
         IN  IF r.carry = 0 THEN r.d ELSE Append(r.d, r.carry)

BMulSmall(x, c) == BNorm(BMulAdd(x, c, 0))
BAddSmall(x, c) == BMulAdd(x, 1, c)

\* limbs lo..hi of x, below a remainder r carried in from above, divided by c
RECURSIVE BDivRange(_, _, _, _, _)
BDivRange(x, lo, hi, c, r) ==
    IF lo > hi THEN [q |-> << >>, r |-> r]
    ELSE IF lo = hi
         THEN LET t == r * BASE + x[lo]
              IN  [q |-> <<t \div c>>, r |-> t % c]
    ELSE LET mid == (lo + hi) \div 2
             H   == BDivRange(x, mid + 1, hi, c, r)
             L   == IF H.r = 0 THEN BDivRange(x, lo, mid, c, 0)
                    ELSE BDivRange(x, lo, mid, c, H.r)
         IN  [q |-> L.q \o H.q, r |-> L.r]

\* floor(x / c) and x mod c, for 0 < c < BASE
BDivSmall(x, c) ==
    IF x = << >> THEN [q |-> << >>, r |-> 0]
    ELSE LET d == BDivRange(x, 1, Len(x), c, 0) IN [q |-> BNorm(d.q), r |-> d.r]

RECURSIVE SmallBitLen(_)
SmallBitLen(n) == IF n = 0 THEN 0 ELSE 1 + SmallBitLen(n \div 2)

BitLen(x) == IF x = << >> THEN 0
             ELSE (Len(x) - 1) * LimbBits + SmallBitLen(x[Len(x)])

BIsOdd(x) == x # << >> /\ x[1] % 2 = 1


\* x * 2^n
BShiftLeft(x, n) ==
    IF x = << >> THEN << >>
    ELSE [k \in 1..(n \div LimbBits) |-> 0] \o BMulSmall(x, Pow2(n % LimbBits))

\* floor(x / 2^n), and whether a 1 bit was shifted out
BShiftRight(x, n) ==
    LET drop == Min(n \div LimbBits, Len(x))
        lost == \E k \in 1..drop : x[k] # 0
        rest == SubSeq(x, drop + 1, Len(x))
        d    == BDivSmall(rest, Pow2(n % LimbBits))
    IN  [q |-> d.q, sticky |-> lost \/ d.r # 0]

\* x * 10^k
RECURSIVE BMulPow10(_, _)
BMulPow10(x, k) ==
    IF k = 0 \/ x = << >> THEN x
    ELSE IF k <= 4 THEN BMulSmall(x, CASE k = 1 -> 10 [] k = 2 -> 100
                                       [] k = 3 -> 1000 [] k = 4 -> 10000)
    ELSE BMulPow10(BMulPow10(x, k \div 2), k - k \div 2)

\* floor(x / 10^k), and whether the division was inexact
RECURSIVE BDivPow10(_, _)
BDivPow10(x, k) ==
    IF k = 0 \/ x = << >> THEN [q |-> x, sticky |-> FALSE]
    ELSE IF k <= 4
         THEN LET d == BDivSmall(x, CASE k = 1 -> 10 [] k = 2 -> 100
                                      [] k = 3 -> 1000 [] k = 4 -> 10000)
              IN  [q |-> d.q, sticky |-> d.r # 0]
    ELSE LET a == BDivPow10(x, k \div 2)
         IN  IF a.sticky THEN [q |-> BDivPow10(a.q, k - k \div 2).q, sticky |-> TRUE]
             ELSE BDivPow10(a.q, k - k \div 2)

-----------------------------------------------------------------------------
(* Characters and texts.                                                   *)

Digits == {"0", "1", "2", "3", "4", "5", "6", "7", "8", "9"}

DigitVal(c) == CASE c = "0" -> 0 [] c = "1" -> 1 [] c = "2" -> 2 [] c = "3" -> 3
                 [] c = "4" -> 4 [] c = "5" -> 5 [] c = "6" -> 6 [] c = "7" -> 7
                 [] c = "8" -> 8 [] c = "9" -> 9

HasChar(s, c) == \E k \in 1..Len(s) : s[k] = c                \* c in s
RemoveChar(s, c) == SelectSeq(s, LAMBDA x : x # c)            \* s.replace(c, '')
HasDigit(s) == \E k \in 1..Len(s) : s[k] \in Digits           \* re.search(r'\d', s)

RECURSIVE LStrip(_)
LStrip(s) == IF s # << >> /\ Head(s) = " " THEN LStrip(Tail(s)) ELSE s
RECURSIVE RStrip(_)
RStrip(s) == IF s # << >> /\ s[Len(s)] = " " THEN RStrip(SubSeq(s, 1, Len(s) - 1))
             ELSE s
Strip(s) == RStrip(LStrip(s))                                 \* s.strip()

\* the index after the longest run of digits of s that starts at index p
DigitRunEnd(s, p) ==
    CHOOSE j \in p..(Len(s) + 1) :
        /\ \A t \in p..(j - 1) : s[t] \in Digits
        /\ (j = Len(s) + 1 \/ s[j] \notin Digits)

RECURSIVE BOfDigits(_, _)
BOfDigits(s, acc) == IF s = << >> THEN acc
                     ELSE BOfDigits(Tail(s), BMulAdd(acc, 10, DigitVal(Head(s))))

\* a digit string as a small number, saturating
ExpCap == 100000
RECURSIVE SmallOfDigits(_, _)
SmallOfDigits(s, acc) ==
    IF s = << >> THEN acc
    ELSE SmallOfDigits(Tail(s), Min(ExpCap, acc * 10 + DigitVal(Head(s))))

-----------------------------------------------------------------------------
(* Python floats: IEEE 754 doubles, round-half-to-even.                    *)
(* A finite double is [k |-> "fin", neg, m, e], the value m * 2^e with m   *)
(* below 2^53 and e >= -1074; an infinity is [k |-> "inf", neg].           *)

MantBits == 53
MinExp == -1074
MaxBits == 1024

FZero(neg) == [k |-> "fin", neg |-> neg, m |-> BZero, e |-> 0]
FInf(neg) == [k |-> "inf", neg |-> neg]

\* q, or q + 1 when the dropped bits round up: above one half (half /\ low),
\* or one half exactly and q odd
RoundUpIf(q, half, low) ==
    IF half /\ (low \/ BIsOdd(q)) THEN BAddSmall(q, 1) ELSE q

\* y is x with all but the last of the bits to drop shifted out
RoundHalfEven(y, sticky) ==
    RoundUpIf(BShiftRight(y.q, 1).q, BIsOdd(y.q), y.sticky \/ sticky)

\* round(x / 2^n) to nearest, ties to even, where sticky says that the exact
\* value lies strictly above x (by less than one unit of x); n >= 1
BRoundShift(x, n, sticky) == RoundHalfEven(BShiftRight(x, n - 1), sticky)

\* the double m * 2^e for a mantissa that fits, an overflow to infinity
Finite(neg, m, e) ==
    IF m = BZero THEN FZero(neg)
    ELSE IF BitLen(m) + e > MaxBits THEN FInf(neg)
    ELSE [k |-> "fin", neg |-> neg, m |-> m, e |-> e]

\* the low bits of x * 2^e that a double cannot hold
DropBits(x, e) == Max(BitLen(x) - MantBits, MinExp - e)

RoundBy(neg, x, sticky, e, sh) ==
    IF sh <= 0 THEN Finite(neg, x, e)
    ELSE Finite(neg, BRoundShift(x, sh, sticky), e + sh)

\* the double nearest to (x + sticky) * 2^e
RoundToDouble(neg, x, sticky, e) ==
    IF x = BZero THEN FZero(neg) ELSE RoundBy(neg, x, sticky, e, DropBits(x, e))

\* the left shift that keeps MantBits + 3 bits in the quotient n * 2^s / 10^kk
ScaleBits(n, kk) == Max(0, MantBits + 3 + ((kk * 10) \div 3 + 1) - BitLen(n))

RoundQuotient(neg, d, e) == RoundToDouble(neg, d.q, d.sticky, e)

\* the double nearest to n / 10^kk
DivideToDouble(neg, n, kk, s) ==
    RoundQuotient(neg, BDivPow10(BShiftLeft(n, s), kk), -s)

\* the double nearest to n * 10^dexp
ScaleToDouble(neg, n, dexp) ==
    IF n = BZero THEN FZero(neg)
    ELSE IF BitLen(n) \div 4 + dexp > 310 THEN FInf(neg)   \* n * 10^dexp > 10^310
    ELSE IF (BitLen(n) * 3) \div 10 + 1 + dexp < -330
         THEN FZero(neg)                                   \* n * 10^dexp < 10^-330
    ELSE IF dexp >= 0 THEN RoundToDouble(neg, BMulPow10(n, dexp), FALSE, 0)
    ELSE DivideToDouble(neg, n, -dexp, ScaleBits(n, -dexp))

\* the double nearest to the decimal ds * 10^dexp (ds a digit string)
DecimalToDouble(neg, ds, dexp) == ScaleToDouble(neg, BOfDigits(ds, BZero), dexp)

\* the place of the first character of s that is in cs, Len(s) + 1 without one
Find(s, cs) ==
    LET hits == {p \in 1..Len(s) : s[p] \in cs}
    IN  IF hits = {} THEN Len(s) + 1 ELSE CHOOSE p \in hits : \A q \in hits : p <= q

Upto(s, p) == SubSeq(s, 1, p - 1)
From(s, p) == SubSeq(s, p + 1, Len(s))
AllDigits(s) == \A p \in 1..Len(s) : s[p] \in Digits
Negative(s) == s # << >> /\ s[1] = "-"
Unsigned(s) == IF s # << >> /\ s[1] \in {"-", "+"} THEN Tail(s) ELSE s

\* integer digits ip, fraction digits fp and exponent digits ed
FloatOfFields(neg, ip, fp, hasExp, eneg, ed) ==
    IF /\ AllDigits(ip) /\ AllDigits(fp) /\ AllDigits(ed)
       /\ Len(ip) + Len(fp) >= 1
       /\ hasExp => ed # << >>
    THEN [exc |-> "none",
          val |-> DecimalToDouble(neg, ip \o fp,
                      (IF eneg THEN -1 ELSE 1) * SmallOfDigits(ed, 0) - Len(fp))]
    ELSE [exc |-> "ValueError"]

FloatOfParts(neg, mant, hasExp, ex) ==
    FloatOfFields(neg, Upto(mant, Find(mant, {"."})), From(mant, Find(mant, {"."})),
                  hasExp, Negative(ex), Unsigned(ex))

FloatOfBody(neg, b) ==
    FloatOfParts(neg, Upto(b, Find(b, {"e", "E"})), Find(b, {"e", "E"}) <= Len(b),
                 From(b, Find(b, {"e", "E"})))

\* float(s): optional blanks, sign, digits with an optional point, optional
\* exponent; anything else raises ValueError
py_float(s) == FloatOfBody(Negative(Strip(s)), Unsigned(Strip(s)))

\* x * c for a double x and an integer 0 < c < 2^30 that is a product of two
\* limbs (c is exact as a double)
FMulInt(x, c1, c2) ==
    IF x.k = "inf" THEN x
    ELSE RoundToDouble(x.neg, BMulSmall(BMulSmall(x.m, c1), c2), FALSE, x.e)

\* int(x): truncation toward zero; OverflowError on an infinity
Truncated(neg, mag) == [exc |-> "none", neg |-> neg /\ mag # BZero, mag |-> mag]

py_int(x) ==
    IF x.k = "inf" THEN [exc |-> "OverflowError"]
    ELSE Truncated(x.neg, IF x.e >= 0 THEN BShiftLeft(x.m, x.e)
                          ELSE BShiftRight(x.m, -x.e).q)

-----------------------------------------------------------------------------
(* The value normalizers.                                                  *)

Returned(n) == [exc |-> "none", num |-> n]
Raised(e) == [exc |-> e]
IntOf(neg, mag) == [t |-> "int", neg |-> neg, mag |-> mag]
Int0 == IntOf(FALSE, BZero)
Float0 == [t |-> "float", val |-> FZero(FALSE)]

\* int(value), as the statement `return int(value)` outside any try block:
\* an OverflowError leaves the function
IntResult(n) ==
    IF n.exc = "none" THEN Returned(IntOf(n.neg, n.mag)) ELSE Raised(n.exc)

ReturnInt(value) == IntResult(py_int(value))

\* try: value = float(t)  except ValueError: return 0; then int(value)
IntOrZero(f) ==
    IF f.exc = "ValueError" THEN Returned(Int0) ELSE ReturnInt(f.val)

\* try: value = float(t) * unit  except ValueError: return 0; then int(value)
ScaledOrZero(f, c1, c2) ==
    IF f.exc = "ValueError" THEN Returned(Int0)
    ELSE ReturnInt(FMulInt(f.val, c1, c2))

\* currency_str without the euro sign, stripped
Unit(currency_str) == Strip(RemoveChar(currency_str, "€"))

convert_currency_to_number(currency_str) ==
    IF ~HasDigit(currency_str) THEN Returned(Int0)
    ELSE IF currency_str = << >> \/ currency_str = <<"-">> THEN Returned(Int0)
    ELSE IF /\ ~HasChar(currency_str, "€")
            /\ ~HasChar(currency_str, "m")
            /\ ~HasChar(currency_str, "k")
         THEN IntOrZero(py_float(currency_str))
    ELSE IF HasChar(Unit(currency_str), "m")
         THEN ScaledOrZero(py_float(RemoveChar(Unit(currency_str), "m")), 1000, 1000)
    ELSE IF HasChar(Unit(currency_str), "k")
         THEN ScaledOrZero(py_float(RemoveChar(Unit(currency_str), "k")), 1000, 1)
    ELSE IntOrZero(py_float(Unit(currency_str)))

\* re.search(r'(-?\d+\.?\d*)', s).group(1): the leftmost match, each part greedy
NumberMatch(s) ==
    LET starts == {p \in 1..Len(s) :
                      \/ s[p] \in Digits
                      \/ s[p] = "-" /\ p < Len(s) /\ s[p + 1] \in Digits}
    IN  IF starts = {} THEN [found |-> FALSE]
        ELSE LET p  == CHOOSE q \in starts : \A r \in starts : q <= r
                 p1 == IF s[p] = "-" THEN p + 1 ELSE p
                 p2 == DigitRunEnd(s, p1)
                 p3 == IF p2 <= Len(s) /\ s[p2] = "." THEN DigitRunEnd(s, p2 + 1)
                       ELSE p2
             IN  [found |-> TRUE, group |-> SubSeq(s, p, p3 - 1)]

\* return float(match.group(1)); an exception falls through to return 0.0
FloatOrZero(f) ==
    IF f.exc = "none" THEN Returned([t |-> "float", val |-> f.val])
    ELSE Returned(Float0)

PercentOf(match) ==
    IF match.found THEN FloatOrZero(py_float(match.group)) ELSE Returned(Float0)

parse_percentage(percentage_str) ==
    IF percentage_str = << >> \/ percentage_str = <<"-">> THEN Returned(Float0)
    ELSE IF ~HasChar(percentage_str, "%") /\ ~HasDigit(percentage_str)
         THEN Returned(Float0)
    ELSE PercentOf(NumberMatch(percentage_str))

-----------------------------------------------------------------------------
(* A call of each normalizer on one cell text.                             *)

MaxTextLen == 5
TextAlphabet == {"€", "1", "4", "9", ".", "m", "k", "e", "-", "%"}

RECURSIVE TextsUpTo(_)
TextsUpTo(n) ==
    IF n = 0 THEN {<< >>}
    ELSE LET shorter == TextsUpTo(n - 1)
         IN  shorter \cup {Append(t, c) : t \in {u \in shorter : Len(u) = n - 1},
                                         c \in TextAlphabet}

Pending == [exc |-> "pending"]

TextIdle == tpc = {} /\ text = << >> /\ conv = Pending /\ pct = Pending

CallConvertCurrency ==
    /\ "currency" \notin tpc
    /\ conv' = convert_currency_to_number(text)
    /\ tpc' = tpc \cup {"currency"}
    /\ UNCHANGED <<text, pct>>
    /\ UNCHANGED <<dateVars, pageVars, mainVars>>

CallParsePercentage ==
    /\ "percentage" \notin tpc
    /\ pct' = parse_percentage(text)
    /\ tpc' = tpc \cup {"percentage"}
    /\ UNCHANGED <<text, conv>>
    /\ UNCHANGED <<dateVars, pageVars, mainVars>>

-----------------------------------------------------------------------------
(* The date sequencer.  A date is <<year, month, day>>; datetime refuses a  *)
(* year above MAXYEAR with a ValueError.                                   *)

MAXYEAR == 9999

DateLE(a, b) ==
    \/ a[1] < b[1]
    \/ a[1] = b[1] /\ a[2] < b[2]
    \/ a[1] = b[1] /\ a[2] = b[2] /\ a[3] <= b[3]

\* datetime(y, m, d), for a day that every month has
datetime(y, m, d) ==
    IF y >= 1 /\ y <= MAXYEAR THEN [exc |-> "none", val |-> <<y, m, d>>]
    ELSE [exc |-> "ValueError"]

\* current.replace(day=d)
ReplaceDay(date, d) == <<date[1], date[2], d>>

\* the step of the loop body that moves current on
NextDate(current) ==
    IF current[3] = 1 THEN [exc |-> "none", val |-> ReplaceDay(current, 15)]
    ELSE IF current[2] = 12 THEN datetime(current[1] + 1, 1, 1)
    ELSE datetime(current[1], current[2] + 1, 1)

\* while current <= end: dates.append(current.strftime(...)); current = next
RECURSIVE DateLoop(_, _, _)
DateLoop(current, end, acc) ==
    IF DateLE(current, end)
    THEN LET nxt == NextDate(current)
         IN  IF nxt.exc = "none" THEN DateLoop(nxt.val, end, Append(acc, current))
             ELSE [exc |-> nxt.exc]
    ELSE [exc |-> "none", dates |-> acc]

SnapStart(start) == IF start[3] < 15 THEN ReplaceDay(start, 1) ELSE ReplaceDay(start, 15)

generate_date_range(start_date, end_date) ==
    DateLoop(SnapStart(start_date), end_date, << >>)

YearSpan == 2
InputYears == (MAXYEAR - YearSpan + 1)..MAXYEAR
InputDays == {1, 2, 14, 15, 16, 28}
InputDates == {<<y, m, d>> : y \in InputYears, m \in 1..12, d \in InputDays}

DateIdle == dpc = "idle" /\ date_from = << >> /\ date_to = << >> /\ dates_out = Pending
CallGenerateDateRange ==
    /\ dpc = "call"
    /\ dates_out' = generate_date_range(date_from, date_to)
    /\ dpc' = "returned"
    /\ UNCHANGED <<date_from, date_to>>
    /\ UNCHANGED <<textVars, pageVars, mainVars>>

-----------------------------------------------------------------------------
(* The table extractor.  A parsed page is                                  *)
(*   [table, header_row : BOOLEAN,  ths : Seq([text, class]),              *)
(*    trs : Seq([class, tds : Seq([text, class])])]                        *)
(* where text is what get_text(strip=True) gives and class is the set of   *)
(* the element's class names.                                              *)

T_Rank == <<"R", "a", "n", "k">>
T_Club == <<"C", "l", "u", "b">>
T_Value == <<"V", "a", "l", "u", "e">>
T_Date == <<"D", "a", "t", "e">>

Letters == {"A", "B", "C", "D", "E", "F", "G", "H", "I", "J", "K", "L", "M",
            "N", "O", "P", "Q", "R", "S", "T", "U", "V", "W", "X", "Y", "Z",
            "a", "b", "c", "d", "e", "f", "g", "h", "i", "j", "k", "l", "m",
            "n", "o", "p", "q", "r", "s", "t", "u", "v", "w", "x", "y", "z"}

Lower(c) == CASE c = "A" -> "a" [] c = "B" -> "b" [] c = "C" -> "c" [] c = "D" -> "d"
              [] c = "E" -> "e" [] c = "F" -> "f" [] c = "G" -> "g" [] c = "H" -> "h"
              [] c = "I" -> "i" [] c = "J" -> "j" [] c = "K" -> "k" [] c = "L" -> "l"
              [] c = "M" -> "m" [] c = "N" -> "n" [] c = "O" -> "o" [] c = "P" -> "p"
              [] c = "Q" -> "q" [] c = "R" -> "r" [] c = "S" -> "s" [] c = "T" -> "t"
              [] c = "U" -> "u" [] c = "V" -> "v" [] c = "W" -> "w" [] c = "X" -> "x"
              [] c = "Y" -> "y" [] c = "Z" -> "z" [] OTHER -> c

LowerText(s) == [k \in 1..Len(s) |-> Lower(s[k])]              \* s.lower()

IsSubstr(sub, s) ==                                            \* sub in s
    \E p \in 0..(Len(s) - Len(sub)) : SubSeq(s, p + 1, p + Len(sub)) = sub

WordChar(c) == c \in Letters \cup Digits \cup {"_"}    \* \w

\* re.search(r'Value \w+ \d+', s)
ValueDatePattern(s) ==
    \E p \in 1..Len(s) :
        /\ p + 5 <= Len(s)
        /\ SubSeq(s, p, p + 5) = Append(T_Value, " ")
        /\ \E q \in (p + 7)..(Len(s) - 1) :
              /\ \A t \in (p + 6)..(q - 1) : WordChar(s[t])
              /\ s[q] = " "
              /\ s[q + 1] \in Digits

\* str(n) for n >= 0
RECURSIVE DecimalText(_)
DecimalText(n) ==
    LET d == CASE n % 10 = 0 -> "0" [] n % 10 = 1 -> "1" [] n % 10 = 2 -> "2"
               [] n % 10 = 3 -> "3" [] n % 10 = 4 -> "4" [] n % 10 = 5 -> "5"
               [] n % 10 = 6 -> "6" [] n % 10 = 7 -> "7" [] n % 10 = 8 -> "8"
               [] n % 10 = 9 -> "9"
    IN  IF n < 10 THEN <<d>> ELSE Append(DecimalText(n \div 10), d)

\* the label one visible header cell gets (hidden cells are skipped before)
StandardizeHeader(header_text) ==
    IF header_text = << >> THEN T_Rank
    ELSE IF IsSubstr(T_Club, header_text) THEN T_Club
    ELSE IF ValueDatePattern(header_text) \/ IsSubstr(LowerText(T_Value), LowerText(header_text))
         THEN T_Value
    ELSE header_text

RawHeaders(ths) ==
    LET visible == SelectSeq(ths, LAMBDA th : "hide" \notin th.class)
    IN  [k \in 1..Len(visible) |-> StandardizeHeader(visible[k].text)]

SeqHas(q, x) == \E k \in 1..Len(q) : q[k] = x                  \* x in q

\* every "Value" column under the one name
ValueLabelPlain(value_count) == T_Value

\* the name the value_count-th "Value" column gets
ValueLabel(value_count) ==
    IF value_count > 1 THEN T_Value \o <<"_">> \o DecimalText(value_count)
    ELSE T_Value

\* a non-"Value" label joins the list unless it is in it already
KeepOther(final_headers, h) ==
    IF ~SeqHas(final_headers, h) THEN Append(final_headers, h) ELSE final_headers

\* for h in headers: ... (the loop that builds final_headers)
RECURSIVE FinalHeaders(_, _, _)
FinalHeaders(headers, final_headers, value_count) ==
    IF headers = << >> THEN final_headers
    ELSE LET h == Head(headers)
         IN  IF h = T_Value
             THEN FinalHeaders(Tail(headers),
                               Append(final_headers, ValueLabel(value_count + 1)),
                               value_count + 1)
             ELSE FinalHeaders(Tail(headers), KeepOther(final_headers, h), value_count)

HeadersOf(ths) == FinalHeaders(RawHeaders(ths), << >>, 0)

Str(t) == [t |-> "str", s |-> t]

SkippedRow(tr) == "thead" \in tr.class \/ "tfoot" \in tr.class
SkippedCell(td) == "no-border-rechts" \in td.class /\ "zentriert" \in td.class

CellsData(tr) ==
    LET kept == SelectSeq(tr.tds, LAMBDA td : ~SkippedCell(td))
    IN  [k \in 1..Len(kept) |-> kept[k].text]

MinCells == 2

\* a loop that passes over empty rows only
NoCells(cells_data) == Len(cells_data) < 1

\* if len(cells_data) < 2: continue
InsufficientData(cells_data) == Len(cells_data) < MinCells

\* what one cell becomes under one header: the call's outcome
Entry(header, cell_text) ==
    IF IsSubstr(T_Value, header) THEN convert_currency_to_number(cell_text)
    ELSE IF HasChar(header, "%") THEN parse_percentage(cell_text)
    ELSE Returned(Str(cell_text))

\* the cell a header takes: the one at its own index
CellFor(cells_data, k) == cells_data[k]

\* the conversions of the first loop over headers, one per header that has a
\* cell at its index
Calls(headers, cells_data) ==
    [k \in 1..Min(Len(headers), Len(cells_data)) |->
        Entry(headers[k], CellFor(cells_data, k))]

\* row_data after the two loops over headers; an exception of a conversion
\* leaves through
RowOf(headers, cells_data, calls) ==
    LET filled(h) == {k \in 1..Len(headers) : headers[k] = h /\ k <= Len(cells_data)}
        last(h)   == CHOOSE k \in filled(h) : \A j \in filled(h) : j <= k
        failed    == {k \in DOMAIN calls : calls[k].exc # "none"}
    IN  IF failed # {}
        THEN Raised(calls[CHOOSE k \in failed : \A j \in failed : k <= j].exc)
        ELSE [exc |-> "none",
              row |-> [h \in {headers[k] : k \in 1..Len(headers)} |->
                          IF filled(h) = {} THEN Str(<< >>) ELSE calls[last(h)].num]]

RowData(headers, cells_data) == RowOf(headers, cells_data, Calls(headers, cells_data))

Truthy(v) == CASE v.t = "str" -> v.s # << >>
               [] v.t = "int" -> v.mag # BZero
               [] v.t = "float" -> v.val.k = "inf" \/ v.val.m # BZero

\* if row_data and "Club" in row_data and row_data["Club"]
HasClub(row_data) ==
    /\ DOMAIN row_data # {}
    /\ T_Club \in DOMAIN row_data
    /\ Truthy(row_data[T_Club])

\* what the loop does with one row once row_data is built: the exception
\* leaves the loop, the row is appended, or it is passed over
KeepOrSkip(r) ==
    IF r.exc # "none" THEN [kind |-> "raise", exc |-> r.exc]
    ELSE IF HasClub(r.row) THEN [kind |-> "row", row |-> r.row]
    ELSE [kind |-> "skip"]

\* one iteration of `for row in rows`
RowOutcome(tr, headers) ==
    IF SkippedRow(tr) \/ InsufficientData(CellsData(tr)) THEN [kind |-> "skip"]
    ELSE KeepOrSkip(RowData(headers, CellsData(tr)))

\* teams_data after the loop, or the first exception raised in it
Collect(outs) ==
    LET failed == {k \in 1..Len(outs) : outs[k].kind = "raise"}
        kept   == SelectSeq(outs, LAMBDA out : out.kind = "row")
    IN  IF failed # {}
        THEN Raised(outs[CHOOSE k \in failed : \A j \in failed : k <= j].exc)
        ELSE [exc |-> "none", data |-> [k \in 1..Len(kept) |-> kept[k].row]]

TeamsData(trs, headers) == Collect([k \in 1..Len(trs) |-> RowOutcome(trs[k], headers)])

None == [none |-> TRUE]

\* return {'headers': headers, 'data': teams_data}; `except Exception` turns
\* every exception into None
Scraped(headers, teams) ==
    IF teams.exc # "none" THEN None
    ELSE [none |-> FALSE, headers |-> headers, data |-> teams.data]

WithHeaders(content, headers) == Scraped(headers, TeamsData(content.trs, headers))

\* the body of scrape_bundesliga_market_values from the parsed content on
ScrapeContent(content) ==
    IF ~content.table THEN None
    ELSE IF ~content.header_row THEN None
    ELSE WithHeaders(content, HeadersOf(content.ths))

\* a retrieval either raises (a transport error, a bad status, an unreadable
\* local file) or gives the content
scrape_bundesliga_market_values(fetched) ==
    IF fetched.exc # "none" THEN None ELSE ScrapeContent(fetched.content)

-----------------------------------------------------------------------------
(* A call of the extractor on one parsed page.                             *)

X_ValueOct == <<"V", "a", "l", "u", "e", " ", "O", "c", "t", " ", "1">>
X_Current == <<"C", "u", "r", "r", "e", "n", "t", " ", "v", "a", "l", "u", "e">>
X_Value2 == <<"V", "a", "l", "u", "e", "_", "2">>
X_Percent == <<"%">>
X_Age == <<"A", "g", "e">>
X_FCB == <<"F", "C", "B">>
X_One == <<"1">>
X_Money == <<"€", "4", ".", "1", "m">>
X_Kilo == <<"€", "9", "k">>
X_Share == <<"4", ".", "1", " ", "%">>
X_Huge == <<"1", "e", "9", "9", "9">>

Cell(t, c) == [text |-> t, class |-> c]
Th(t) == Cell(t, {})
Td(t) == Cell(t, {})
Row(c, tds) == [class |-> c, tds |-> tds]
Tr(tds) == Row({"odd"}, tds)

RECURSIVE SeqsUpTo(_, _)
SeqsUpTo(S, n) ==
    IF n = 0 THEN {<< >>}
    ELSE LET shorter == SeqsUpTo(S, n - 1)
         IN  shorter \cup {Append(t, c) : t \in {u \in shorter : Len(u) = n - 1},
                                         c \in S}

MaxHeaders == 4
ThCells == {Th(<< >>), Th(T_Club), Th(X_ValueOct), Th(X_Current), Th(X_Value2),
            Th(X_Percent), Th(T_Rank), Th(X_Age), Cell(X_Age, {"hide"})}

HeaderPages == {[table |-> TRUE, header_row |-> TRUE, ths |-> h, trs |-> << >>] :
                   h \in SeqsUpTo(ThCells, MaxHeaders)}

MaxRows == 2
RowHeaders == {<<Th(<< >>), Th(T_Club), Th(X_ValueOct)>>,
               <<Th(<< >>), Cell(X_Age, {"hide"}), Th(T_Club), Th(X_ValueOct),
                 Th(X_Current), Th(X_Percent)>>,
               <<Th(T_Club), Th(X_Age)>>,
               <<Th(X_Age), Th(X_Percent)>>}
RowSamples == {Tr(<<Td(X_One), Td(X_FCB), Td(X_Money)>>),
               Tr(<<Td(X_One), Td(X_Age), Td(X_Kilo), Td(X_Money), Td(X_Share)>>),
               Tr(<<Td(X_One), Td(<< >>), Td(X_Money)>>),
               Tr(<<Td(X_FCB)>>),
               Tr(<<Td(X_FCB), Td(X_One)>>),
               Tr(<<Cell(<< >>, {"zentriert", "no-border-rechts"}), Td(X_One), Td(X_FCB)>>),
               Tr(<<Td(X_One), Td(X_FCB), Td(X_Huge)>>),
               Row({"thead"}, <<Td(X_One), Td(X_FCB), Td(X_Money)>>)}

RowPages == {[table |-> TRUE, header_row |-> TRUE, ths |-> h, trs |-> r] :
                h \in RowHeaders, r \in SeqsUpTo(RowSamples, MaxRows)}

PageIdle == epc = "idle" /\ page = None /\ scraped = None

CallScrape ==
    /\ epc = "call"
    /\ scraped' = ScrapeContent(page)
    /\ epc' = "returned"
    /\ UNCHANGED page
    /\ UNCHANGED <<textVars, dateVars, mainVars>>

-----------------------------------------------------------------------------
(* The CSV sink.  The output file is [exists, lines]; a line is the header  *)
(* row written by writeheader, [hdr |-> TRUE, cells], or a data row written *)
(* by writerow, [hdr |-> FALSE, cols, cells] (cols: the field names the     *)
(* writer laid the cells out by).                                          *)

NoFile == [exists |-> FALSE, lines |-> << >>]

HeaderLine(fieldnames) == [hdr |-> TRUE, cells |-> fieldnames]

\* {"Date": date} updated with the row, laid out by the writer's field names
RowLine(fieldnames, row, date) ==
    LET row_with_date == [h \in {T_Date} \cup DOMAIN row |->
                             IF h \in DOMAIN row THEN row[h]
                             ELSE IF date = << >> THEN Str(<< >>)
                             ELSE [t |-> "date", d |-> date]]
    IN  [hdr |-> FALSE, cols |-> fieldnames,
         cells |-> [k \in 1..Len(fieldnames) |->
                       IF fieldnames[k] \in DOMAIN row_with_date
                       THEN row_with_date[fieldnames[k]] ELSE Str(<< >>)]]

\* a sink that takes every file for a new one
NeverExists(f) == FALSE

\* os.path.exists(filename)
FileExists(f) == f.exists

\* what open(filename, 'w') would make of them
OpenTruncate(old, written) == written

\* what open(filename, 'a') makes of the old content and the lines written
OpenAppend(old, written) == old \o written

\* the lines one call writes: the header unless the file exists, then the rows
LinesToWrite(f, result, date) ==
    LET headers == <<T_Date>> \o result.headers
    IN  (IF ~FileExists(f) THEN <<HeaderLine(headers)>> ELSE << >>)
        \o [k \in 1..Len(result.data) |-> RowLine(headers, result.data[k], date)]

\* the faults a call can meet: none, open() raising, or a write raising after
\* k lines reached the file
SinkFaults(f, result, date) ==
    {[kind |-> "none"], [kind |-> "open"]}
    \cup {[kind |-> "write", k |-> k] : k \in 0..(Len(LinesToWrite(f, result, date)) - 1)}

save_to_csv(f, result, date, fault) ==
    IF result.none THEN [file |-> f, ok |-> FALSE]
    ELSE LET new == LinesToWrite(f, result, date)
         IN  CASE fault.kind = "none" ->
                    [file |-> [exists |-> TRUE, lines |-> OpenAppend(f.lines, new)],
                     ok |-> TRUE]
               [] fault.kind = "open" -> [file |-> f, ok |-> FALSE]
               [] fault.kind = "write" ->
                    [file |-> [exists |-> TRUE,
                               lines |-> OpenAppend(f.lines, SubSeq(new, 1, fault.k))],
                     ok |-> FALSE]

-----------------------------------------------------------------------------
(* main: one run of the program per set of command-line arguments, runs    *)
(* following each other on the same output file.                           *)

MaxRuns == 2

DateArgs == {<<<<2024, 10, 20>>, <<2024, 10, 1>>>>,      \* no snapshot
             <<<<2024, 10, 20>>, <<2024, 10, 20>>>>,     \* one
             <<<<2024, 10, 20>>, <<2024, 11, 1>>>>,      \* two
             <<<<MAXYEAR, 12, 20>>, <<MAXYEAR, 12, 28>>>>}
Delays == {-1, 0, 5}
ArgSet == {[date_from |-> r[1], date_to |-> r[2], use_local_file |-> l, delay |-> d] :
              r \in DateArgs, l \in BOOLEAN, d \in Delays}

PageOf(ths, trs) == [table |-> TRUE, header_row |-> TRUE, ths |-> ths, trs |-> trs]
Contents ==
    {[table |-> FALSE, header_row |-> FALSE, ths |-> << >>, trs |-> << >>],
     [table |-> TRUE, header_row |-> FALSE, ths |-> << >>, trs |-> << >>],
     PageOf(<<Th(<< >>), Th(T_Club), Th(X_ValueOct)>>,
            <<Tr(<<Td(X_One), Td(X_FCB), Td(X_Money)>>)>>),
     PageOf(<<Th(<< >>), Th(T_Club), Th(X_ValueOct), Th(X_Current)>>,
            <<Tr(<<Td(X_One), Td(X_FCB), Td(X_Money), Td(X_Kilo)>>)>>),
     PageOf(<<Th(<< >>), Th(T_Club), Th(X_ValueOct)>>,
            <<Tr(<<Td(X_One), Td(X_FCB), Td(X_Huge)>>)>>),
     PageOf(<<Th(<< >>), Th(T_Club), Th(X_ValueOct)>>, << >>)}

\* what the retrieval gives: an exception (requests.get, raise_for_status or
\* open raising) or some content
Fetches == {[exc |-> "IOError"]} \cup {[exc |-> "none", content |-> c] : c \in Contents}

\* the date the URL is built for: None unless the day is 1 or 15
RequestedDate(date) == IF date[3] \in {1, 15} THEN date ELSE << >>

Ended == pc \in {"done", "crashed"}

MainIdle == /\ pc = "idle" /\ args = << >> /\ dates = << >> /\ i = 0 /\ data = None
            /\ file = NoFile /\ log = << >> /\ runs = 0 /\ cleanSink = TRUE

\* dates = generate_date_range(args.date_from, args.date_to)
GenerateDates ==
    /\ pc = "start"
    /\ LET r == generate_date_range(args.date_from, args.date_to)
       IN  IF r.exc # "none"
           THEN pc' = "crashed" /\ dates' = dates
           ELSE /\ dates' = r.dates
                /\ pc' = IF r.dates = << >> THEN "done" ELSE "scrape"
    /\ UNCHANGED <<args, i, data, file, log, runs, cleanSink, textVars, dateVars, pageVars>>

\* data = scrape_bundesliga_market_values(date, args.use_local_file)
Scrape ==
    /\ pc = "scrape"
    /\ \E fetched \in Fetches : data' = scrape_bundesliga_market_values(fetched)
    /\ log' = Append(log, [ev |-> "scrape", date |-> RequestedDate(dates[i + 1])])
    /\ pc' = "save"
    /\ UNCHANGED <<args, dates, i, file, runs, cleanSink, textVars, dateVars, pageVars>>

\* if data: save_to_csv(data, args.output_file, date)
Save ==
    /\ pc = "save"
    /\ ~data.none
    /\ \E fault \in SinkFaults(file, data, dates[i + 1]) :
          LET r == save_to_csv(file, data, dates[i + 1], fault)
          IN  /\ file' = r.file
              /\ cleanSink' = (cleanSink /\ (r.ok \/ ~r.file.exists))
    /\ pc' = "pace"
    /\ UNCHANGED <<args, dates, i, data, log, runs, textVars, dateVars, pageVars>>

\* else: print("No data scraped ...")
NoData ==
    /\ pc = "save"
    /\ data.none
    /\ pc' = "pace"
    /\ UNCHANGED <<args, dates, i, data, file, log, runs, cleanSink, textVars, dateVars, pageVars>>

\* if i < len(dates) - 1 and not args.use_local_file
MustPace == i < Len(dates) - 1 /\ ~args.use_local_file

NextIteration == /\ i' = i + 1
                 /\ pc' = IF i + 1 < Len(dates) THEN "scrape" ELSE "done"

\* time.sleep(args.delay): a ValueError for a negative length, which nothing
\* catches
Sleep ==
    /\ pc = "pace"
    /\ MustPace
    /\ IF args.delay < 0
       THEN pc' = "crashed" /\ UNCHANGED <<i, log>>
       ELSE log' = Append(log, [ev |-> "sleep", secs |-> args.delay]) /\ NextIteration
    /\ UNCHANGED <<args, dates, data, file, runs, cleanSink, textVars, dateVars, pageVars>>

NoSleep ==
    /\ pc = "pace"
    /\ ~MustPace
    /\ NextIteration
    /\ UNCHANGED <<args, dates, data, file, log, runs, cleanSink, textVars, dateVars, pageVars>>

\* the program is started again, on the same output path
NewRun ==
    /\ Ended
    /\ runs < MaxRuns
    /\ args' \in ArgSet
    /\ pc' = "start"
    /\ dates' = << >>
    /\ i' = 0
    /\ data' = None
    /\ log' = << >>
    /\ runs' = runs + 1
    /\ UNCHANGED <<file, cleanSink, textVars, dateVars, pageVars>>

Init == /\ pc = "start"
        /\ args \in ArgSet
        /\ dates = << >>
        /\ i = 0
        /\ data = None
        /\ file = NoFile
        /\ log = << >>
        /\ runs = 1
        /\ cleanSink = TRUE
        /\ TextIdle /\ DateIdle /\ PageIdle
Next == GenerateDates \/ Scrape \/ Save \/ NoData \/ Sleep \/ NoSleep \/ NewRun
Spec == Init /\ [][Next]_vars

InitText == /\ tpc = {} /\ text \in TextsUpTo(MaxTextLen) /\ conv = Pending /\ pct = Pending
            /\ DateIdle /\ PageIdle /\ MainIdle
NextText == CallConvertCurrency \/ CallParsePercentage
SpecText == InitText /\ [][NextText]_vars

InitDates == /\ dpc = "call" /\ date_from \in InputDates /\ date_to \in InputDates
             /\ dates_out = Pending
             /\ TextIdle /\ PageIdle /\ MainIdle
SpecDates == InitDates /\ [][CallGenerateDateRange]_vars

InitHeaders == /\ epc = "call" /\ page \in HeaderPages /\ scraped = None
               /\ TextIdle /\ DateIdle /\ MainIdle
SpecHeaders == InitHeaders /\ [][CallScrape]_vars

InitRows == /\ epc = "call" /\ page \in RowPages /\ scraped = None
            /\ TextIdle /\ DateIdle /\ MainIdle
SpecRows == InitRows /\ [][CallScrape]_vars

-----------------------------------------------------------------------------
(* The claims.                                                             *)

IsPrefix(s, t) == Len(s) <= Len(t) /\ SubSeq(t, 1, Len(s)) = s
IsScrape(ev) == ev.ev = "scrape"
IsSleep(ev) == ev.ev = "sleep"
DataLines == {k \in 1..Len(file.lines) : ~file.lines[k].hdr}

\* C1: a file that did not exist and has seen successful writes only has
\* exactly one header line, and it is its first line.
HeaderOnce ==
    (cleanSink /\ file.exists) =>
        /\ file.lines # << >>
        /\ file.lines[1].hdr
        /\ \A k \in 2..Len(file.lines) : ~file.lines[k].hdr

\* two snapshots of different dates have been written, all writes successful
TwoSnapshotsSaved ==
    /\ cleanSink
    /\ \E j \in DataLines : \E k \in DataLines :
          file.lines[j].cells[1] # file.lines[k].cells[1]

\* C2: when a run ends, every date of the range has been attempted exactly
\* once, in chronological order: the attempts are the date list.
EveryDateAttempted ==
    Ended => [k \in 1..Len(SelectSeq(log, IsScrape)) |->
                 SelectSeq(log, IsScrape)[k].date] = dates

\* C3: every data row of the file has the columns of the file's header row,
\* in the same order.
StableRowShape ==
    (cleanSink /\ file.exists) =>
        \A k \in DataLines : file.lines[k].cols = file.lines[1].cells

\* C4: every step leaves the lines already in the file where they are and
\* only adds lines after them, and an iteration without an extraction result
\* leaves the file as it is.
AppendOnly ==
    [][/\ file.exists => file'.exists
       /\ IsPrefix(file.lines, file'.lines)
       /\ (pc = "save" /\ data.none) => file' = file]_vars

\* a write of a later run on a file that an earlier write left lines in
AppendedAcrossRuns ==
    /\ runs = MaxRuns
    /\ pc = "pace"
    /\ ~data.none
    /\ Len(file.lines) >= 3

\* C5: generate_date_range returns without raising, and returns in strictly
\* increasing order exactly the dates of day 1 or 15 from snap(start) to end.
Snap(start) == <<start[1], start[2], IF start[3] < 15 THEN 1 ELSE 15>>
CanonicalDates == {<<y, m, d>> : y \in InputYears, m \in 1..12, d \in {1, 15}}
Before(a, b) == DateLE(a, b) /\ a # b
DateRangeCorrect ==
    dpc = "returned" =>
        /\ dates_out.exc = "none"
        /\ \A j \in 1..Len(dates_out.dates) : \A k \in 1..Len(dates_out.dates) :
              j < k => Before(dates_out.dates[j], dates_out.dates[k])
        /\ {dates_out.dates[k] : k \in 1..Len(dates_out.dates)}
             = {d \in CanonicalDates : DateLE(Snap(date_from), d) /\ DateLE(d, date_to)}

\* C6: the final header list has no blank label, no two equal labels and at
\* most one "Value"; it is, in document order, the labels of the value-bearing
\* columns (the k-th named Value_k from the second on) and of the first
\* occurrence of every other label.
NthValue(R, p) == Cardinality({q \in 1..p : R[q] = T_Value})
LabelAt(R, p) ==
    IF R[p] # T_Value THEN R[p]
    ELSE IF NthValue(R, p) >= 2 THEN T_Value \o <<"_">> \o DecimalText(NthValue(R, p))
    ELSE T_Value
Retained(R) == {p \in 1..Len(R) : R[p] = T_Value \/ \A q \in 1..(p - 1) : R[q] # R[p]}
NthOf(S, k) == CHOOSE p \in S : Cardinality({q \in S : q <= p}) = k
HeaderListOf(R, F) ==
    /\ \A k \in 1..Len(F) : F[k] # << >>
    /\ \A j \in 1..Len(F) : \A k \in 1..Len(F) : j # k => F[j] # F[k]
    /\ Cardinality({k \in 1..Len(F) : F[k] = T_Value}) <= 1
    /\ F = [k \in 1..Cardinality(Retained(R)) |-> LabelAt(R, NthOf(Retained(R), k))]
HeaderListCorrect ==
    epc = "returned" =>
        /\ ~scraped.none
        /\ HeaderListOf(RawHeaders(page.ths), scraped.headers)

\* a second value column got its suffix and a repeated label was dropped
SecondValueAndRepeat ==
    /\ epc = "returned"
    /\ ~scraped.none
    /\ SeqHas(scraped.headers, X_Value2)
    /\ Len(scraped.headers) < Len(RawHeaders(page.ths))

\* C7: the rows of a result are, in order, the body rows with at least two
\* cells and a non-empty cell under "Club"; each has one entry per header:
\* the cell at the header's position (normalized under a Value or % header),
\* or the empty string without such a cell.
BodyCells(tr) ==
    LET tds == SelectSeq(tr.tds, LAMBDA td : ~({"no-border-rechts", "zentriert"} \subseteq td.class))
    IN  [k \in 1..Len(tds) |-> tds[k].text]
ClubCell(H, cells) ==
    \E k \in 1..Len(H) : H[k] = T_Club /\ k <= Len(cells) /\ cells[k] # << >>
Retains(H, tr) ==
    /\ tr.class \cap {"thead", "tfoot"} = {}
    /\ Len(BodyCells(tr)) >= 2
    /\ ClubCell(H, BodyCells(tr))
RowOfCells(H, cells, row) ==
    /\ DOMAIN row = {H[k] : k \in 1..Len(H)}
    /\ \A k \in 1..Len(H) :
          row[H[k]] = IF k <= Len(cells) THEN Entry(H[k], cells[k]).num ELSE Str(<< >>)
    /\ row[T_Club].t = "str" /\ row[T_Club].s # << >>
RowsOf(H, trs, rows) ==
    /\ Len(rows) = Len(trs)
    /\ \A j \in 1..Len(rows) : RowOfCells(H, BodyCells(trs[j]), rows[j])
RowsCorrect ==
    (epc = "returned" /\ ~scraped.none) =>
        RowsOf(scraped.headers,
               SelectSeq(page.trs, LAMBDA tr : Retains(scraped.headers, tr)),
               scraped.data)

\* a result that kept one body row, with a default under a header without a
\* cell, and dropped another
RowKeptRowDropped ==
    /\ epc = "returned"
    /\ ~scraped.none
    /\ Len(scraped.data) = 1
    /\ Len(page.trs) = 2
    /\ \E h \in DOMAIN scraped.data[1] : scraped.data[1][h] = Str(<< >>)

\* C8: when a run ends it has slept once after every snapshot but the last
\* (never in local mode), for the configured length, each time between two
\* retrievals.
DelaysBetweenSnapshots ==
    Ended =>
        /\ Len(SelectSeq(log, IsSleep))
             = IF args.use_local_file \/ dates = << >> THEN 0 ELSE Len(dates) - 1
        /\ \A k \in 1..Len(log) :
              IsSleep(log[k]) => /\ log[k].secs = args.delay
                                 /\ 1 < k /\ k < Len(log)
                                 /\ IsScrape(log[k - 1]) /\ IsScrape(log[k + 1])

\* C9: both normalizers return a number for every text; neither raises.
NormalizersTotal ==
    /\ "currency" \in tpc => conv.exc = "none"
    /\ "percentage" \in tpc => pct.exc = "none"

\* C10: for an optional euro sign, a non-negative decimal number and an
\* optional suffix m or k, convert_currency_to_number returns the number times
\* 1,000,000, 1,000 or 1, truncated to an integer; a text without a digit
\* gives 0.
Suffix(s) == IF s # << >> /\ s[Len(s)] \in {"m", "k"} THEN s[Len(s)] ELSE ""
Number(s) ==
    LET u == IF s # << >> /\ s[1] = "€" THEN Tail(s) ELSE s
    IN  IF Suffix(s) = "" THEN u ELSE SubSeq(u, 1, Len(u) - 1)
Whole(num) == Upto(num, Find(num, {"."}))
Fraction(num) == From(num, Find(num, {"."}))
IsDecimal(num) ==
    /\ Whole(num) # << >> /\ AllDigits(Whole(num)) /\ AllDigits(Fraction(num))
    /\ HasChar(num, ".") <=> Fraction(num) # << >>
UnitPower(s) == CASE Suffix(s) = "m" -> 6 [] Suffix(s) = "k" -> 3 [] OTHER -> 0
ExactValue(s) ==
    BDivPow10(BMulPow10(BOfDigits(Whole(Number(s)) \o Fraction(Number(s)), BZero),
                        UnitPower(s)),
              Len(Fraction(Number(s)))).q
CurrencyValueExact ==
    "currency" \in tpc =>
        /\ IsDecimal(Number(text)) => conv = Returned(IntOf(FALSE, ExactValue(text)))
        /\ ~HasDigit(text) => conv = Returned(Int0)

====
